---- MODULE Spec2Model ----
(***************************************************************************)
(* The three-sheet wallet table of src/src/sheets.js: upsertWallet,        *)
(* updateRole, batchUpdateRoles, batchDeleteRows and callWithRetry, each   *)
(* handler cut at its remote calls (its awaits).                           *)
(***************************************************************************)
EXTENDS Integers, Sequences, FiniteSets, TLC

\* ------------------------------------------------------------------ bounds
NumUsers == 2
MaxUpdates == 2
MaxItems == 2
MaxRows == 2
MaxConcOps == 3
MaxFailures == 5
MaxDupRows == 2
NumRefreshRows == 6
MaxChanged == 2
NumPruneRows == 4
NumFillRows == 4

\* ------------------------------------------------------- program constants
SHEET_NAMES == <<"Monadians", "Monarch", "Monalista">>
HEADER_ROW == <<"Discord Username", "Discord ID", "EVM Wallet", "Role">>
maxAttempts == 5
InitialDelayMs == 1000
DelayCapMs == 15000
JitterRange == 250
concurrencyLimit == 5
PRIORITY_ROLES == <<"Monadian", "Monarch", "Monalista">>

SheetSet == {SHEET_NAMES[n] : n \in 1..Len(SHEET_NAMES)}
NoSheet == "null"

\* ------------------------------------------------------------ input space
UserIds == <<"u1", "u2", "u3", "u4", "u5", "u6", "u7", "u8">>
Users == {UserIds[n] : n \in 1..NumUsers}
Profiles == {[name |-> "alice", wallet |-> "0xA"], [name |-> "bob", wallet |-> "0xB"]}
RoleLabels == {"Monadian", "monadian", "Monarch", "Monalista", "", "Monad Airdrop"}

VARIABLES sheets, header, th, conc, ops, rt, rs, rf

vars == <<sheets, header, th, conc, ops, rt, rs, rf>>

Threads == {1, 2}

\* ------------------------------------------------------- partition resolver
\* A role argument that is absent (undefined or null in the caller).
Undefined == "<undefined>"

\* The labels the resolver is applied to: the three role names in several
\* letter cases, near misses, the empty string and the absent label.
ResolverInputs ==
  {"Monadian", "monadian", "MONADIAN", "mOnAdIaN",
   "Monarch", "monarch", "MONARCH",
   "Monalista", "monalista", "MONALISTA", "MonaLista",
   "Monadians", "monad", " monadian", "Monad Airdrop", "", Undefined}

\* String.prototype.toLowerCase on the labels of the input space: the upper
\* case letters become lower case, every other character stays.
toLowerCase(s) ==
  CASE s \in {"Monadian", "MONADIAN", "mOnAdIaN"} -> "monadian"
    [] s \in {"Monarch", "MONARCH"} -> "monarch"
    [] s \in {"Monalista", "MONALISTA", "MonaLista"} -> "monalista"
    [] s = "Monadians" -> "monadians"
    [] s = "Monad Airdrop" -> "monad airdrop"
    [] OTHER -> s

\* line 43: role || ''
OrEmpty(role) == IF role = Undefined THEN "" ELSE role

\* A resolver that compares the label as given.
getSheetNameForRole_caseSensitive(role) ==
  LET normalized == OrEmpty(role) IN
  IF normalized = "monadian" THEN SHEET_NAMES[1]
  ELSE IF normalized = "monarch" THEN SHEET_NAMES[2]
  ELSE IF normalized = "monalista" THEN SHEET_NAMES[3]
  ELSE NoSheet

\* A resolver that falls back to the last sheet instead of null.
getSheetNameForRole_fallback(role) ==
  LET normalized == toLowerCase(OrEmpty(role)) IN
  IF normalized = "monadian" THEN SHEET_NAMES[1]
  ELSE IF normalized = "monarch" THEN SHEET_NAMES[2]
  ELSE SHEET_NAMES[3]

getSheetNameForRole(role) ==
  LET normalized == toLowerCase(OrEmpty(role)) IN
  IF normalized = "monadian" THEN SHEET_NAMES[1]
  ELSE IF normalized = "monarch" THEN SHEET_NAMES[2]
  ELSE IF normalized = "monalista" THEN SHEET_NAMES[3]
  ELSE NoSheet

\* ------------------------------------------------------- the remote sheets
\* A sheet's data rows are the rows from row 2 on: rows[i] is sheet row i + 1.
Row(name, id, wallet, role) ==
  [name |-> name, id |-> id, wallet |-> wallet, role |-> role]

BlankRow == Row("", "", "", "")

RECURSIVE Trim(_)
\* values.get returns the rows up to the last one that holds a value.
Trim(rows) ==
  IF rows # <<>> /\ rows[Len(rows)] = BlankRow
  THEN Trim(SubSeq(rows, 1, Len(rows) - 1))
  ELSE rows

Pad(rows, n) ==
  [i \in 1..(IF n > Len(rows) THEN n ELSE Len(rows)) |->
     IF i <= Len(rows) THEN rows[i] ELSE BlankRow]

\* spreadsheets.values.get of `${sheetName}!A2:D`
ValuesGet(tab, sheetName) == tab[sheetName]

\* A values.update of row 2 in the place of the append.
ValuesAppend_overwriteTop(tab, sheetName, row) ==
  [tab EXCEPT ![sheetName] = IF @ = <<>> THEN <<row>> ELSE [@ EXCEPT ![1] = row]]

\* spreadsheets.values.append on `${sheetName}!A2:D` with INSERT_ROWS
ValuesAppend(tab, sheetName, row) ==
  [tab EXCEPT ![sheetName] = Trim(Append(@, row))]

\* A slip in the range: the row below the one located.
ValuesUpdateRow_nextRow(tab, sheetName, rowNumber, row) ==
  [tab EXCEPT ![sheetName] =
     [i \in 1..(IF rowNumber > Len(@) THEN rowNumber ELSE Len(@)) |->
        IF i = rowNumber THEN row ELSE IF i <= Len(@) THEN @[i] ELSE BlankRow]]

\* spreadsheets.values.update of `${sheetName}!A${rowNumber}:D${rowNumber}`
ValuesUpdateRow(tab, sheetName, rowNumber, row) ==
  [tab EXCEPT ![sheetName] =
     Trim([Pad(@, rowNumber - 1) EXCEPT ![rowNumber - 1] = row])]

\* spreadsheets.values.update of `${sheetName}!D${rowNumber}:D${rowNumber}`
ValuesUpdateRole(tab, sheetName, rowNumber, role) ==
  [tab EXCEPT ![sheetName] =
     Trim([Pad(@, rowNumber - 1) EXCEPT ![rowNumber - 1].role = role])]

\* A slip in the index arithmetic: startIndex rowNumber, endIndex rowNumber + 1.
deleteRowFromSheet_offByOne(tab, sheetName, rowNumber) ==
  IF sheetName \notin DOMAIN tab THEN tab
  ELSE IF rowNumber \in 1..Len(tab[sheetName])
  THEN [tab EXCEPT ![sheetName] =
          [j \in 1..(Len(@) - 1) |-> IF j < rowNumber THEN @[j] ELSE @[j + 1]]]
  ELSE tab

RemoveAt(rows, i) ==
  [j \in 1..(Len(rows) - 1) |-> IF j < i THEN rows[j] ELSE rows[j + 1]]

\* deleteDimension ROWS [rowNumber - 1, rowNumber): the rows below move up.
deleteRowFromSheet(tab, sheetName, rowNumber) ==
  IF sheetName \notin DOMAIN tab THEN tab
  ELSE IF rowNumber - 1 \in 1..Len(tab[sheetName])
  THEN [tab EXCEPT ![sheetName] = Trim(RemoveAt(@, rowNumber - 1))]
  ELSE IF rowNumber = 1 /\ tab[sheetName] # <<>>
  THEN \* row 1 goes and the first data row takes its place
       [tab EXCEPT ![sheetName] = Tail(@)]
  ELSE tab

\* Row 1 of each sheet after the same deleteDimension.
HeaderAfterDelete(hdr, tab, sheetName, rowNumber) ==
  IF sheetName \in DOMAIN hdr /\ rowNumber = 1
  THEN [hdr EXCEPT ![sheetName] =
          IF tab[sheetName] = <<>> THEN <<>>
          ELSE LET r == tab[sheetName][1] IN <<r.name, r.id, r.wallet, r.role>>]
  ELSE hdr

\* Row 1 of a sheet that is not in the spreadsheet.
Absent == <<"<no sheet>">>

\* A test that looks at an empty first row only.
NeedsHeader_emptyOnly(firstRow) == Len(firstRow) = 0

\* A test that is always true: the header is written on every call.
NeedsHeader_always(firstRow) == TRUE

\* line 99: firstRow.length === 0 || HEADER_ROW.some((h, i) => firstRow[i] !== h)
NeedsHeader(firstRow) ==
  \/ Len(firstRow) = 0
  \/ \E c \in 1..Len(HEADER_ROW) : Len(firstRow) < c \/ firstRow[c] # HEADER_ROW[c]

\* lines 79-92: the sheets that are missing are added, with an empty row 1.
Created(hdr) == [s \in SheetSet |-> IF hdr[s] = Absent THEN <<>> ELSE hdr[s]]

\* lines 95-107: the sheets whose row 1 is written, in the order of SHEET_NAMES.
HeaderWrites(hdr) ==
  SelectSeq(SHEET_NAMES, LAMBDA s : NeedsHeader(Created(hdr)[s]))

\* ensureSheetSetup: a header that is missing or differs is rewritten.
ensureSheetSetup(hdr) ==
  [s \in SheetSet |-> IF NeedsHeader(Created(hdr)[s]) THEN HEADER_ROW ELSE Created(hdr)[s]]

\* ------------------------------------------------------------ record locator
NoLoc == [sheetName |-> NoSheet, rowNumber |-> 0]

\* A locator that compares the username column (rows[i][0]) with the id.
FindRow_wrongColumn(rows, discordId) ==
  LET hits == {i \in 1..Len(rows) : rows[i] # BlankRow /\ rows[i].name = discordId} IN
  IF hits = {} THEN 0 ELSE CHOOSE i \in hits : \A j \in hits : i <= j

\* A locator whose loop lacks the break and keeps the last match.
FindRow_lastMatch(rows, discordId) ==
  LET hits == {i \in 1..Len(rows) : rows[i] # BlankRow /\ rows[i].id = discordId} IN
  IF hits = {} THEN 0 ELSE CHOOSE i \in hits : \A j \in hits : i >= j

\* The first i with rows[i][1] === discordId, 0 when there is none.
FindRow(rows, discordId) ==
  LET hits == {i \in 1..Len(rows) : rows[i] # BlankRow /\ rows[i].id = discordId} IN
  IF hits = {} THEN 0 ELSE CHOOSE i \in hits : \A j \in hits : i <= j

RECURSIVE Concat(_)
Concat(ss) == IF ss = <<>> THEN <<>> ELSE Head(ss) \o Concat(Tail(ss))

ItemsOfSheet(tab, sheetName) ==
  LET rows == ValuesGet(tab, sheetName)
      all == [i \in 1..Len(rows) |->
                [sheetName |-> sheetName, rowNumber |-> i + 1,
                 discordUsername |-> rows[i].name, discordId |-> rows[i].id,
                 wallet |-> rows[i].wallet, role |-> rows[i].role]]
  IN SelectSeq(all, LAMBDA it : rows[it.rowNumber - 1] # BlankRow)

listWalletsWithRow(tab) ==
  Concat([n \in 1..Len(SHEET_NAMES) |-> ItemsOfSheet(tab, SHEET_NAMES[n])])

\* ------------------------------------------------------- handler instances
EmptyTab == [s \in SheetSet |-> <<>>]
NoArg == [discordId |-> "", discordUsername |-> "", wallet |-> "", role |-> ""]

\* A handler that is not running.
IdleT ==
  [kind |-> "idle", pc |-> "idle", arg |-> NoArg, k |-> 0, loc |-> NoLoc,
   updates |-> <<>>, i |-> 0, updated |-> 0, moved |-> 0,
   items |-> <<>>, queue |-> <<>>, deleted |-> 0,
   pre |-> EmptyTab, hpre |-> <<>>, log |-> <<>>, result |-> "none", rep |-> FALSE,
   failedAt |-> "none"]

\* The remote mutations a handler has issued so far.
Logged(rec, op, sheetName, rowNumber) ==
  [rec EXCEPT !.log = Append(@, [op |-> op, sheetName |-> sheetName, rowNumber |-> rowNumber])]

\* ensureSheetSetup's writes of row 1 (lines 100-105), as mutations of the handler.
EnsureLogged(rec) ==
  [rec EXCEPT !.log = @ \o [n \in 1..Len(HeaderWrites(header)) |->
     [op |-> "header", sheetName |-> HeaderWrites(header)[n], rowNumber |-> 1]]]

RECURSIVE TotalRows(_, _)
TotalRows(tab, n) == IF n = 0 THEN 0 ELSE Len(tab[SHEET_NAMES[n]]) + TotalRows(tab, n - 1)

\* The table is kept small: a handler that can add a row starts only below the bound.
RoomLeft == TotalRows(sheets, Len(SHEET_NAMES)) <= MaxRows

AllIdle == \A t \in Threads : th[t].pc = "idle"

\* Handlers run one at a time (thread 1) unless conc lets their awaits interleave;
\* thread 2 is the handler of an event that arrives while thread 1 is running.
CanStart(t) ==
  /\ th[t].pc = "idle"
  /\ IF conc THEN ops < MaxConcOps /\ (t = 1 \/ th[1].pc # "idle") ELSE t = 1 /\ AllIdle

Started(t, rec) ==
  /\ th' = [th EXCEPT ![t] = [rec EXCEPT !.pre = IF conc THEN EmptyTab ELSE sheets,
                                            !.hpre = IF conc THEN <<>> ELSE header]]
  /\ ops' = IF conc THEN ops + 1 ELSE ops
  /\ UNCHANGED <<sheets, header, conc, rt, rs, rf>>

\* batchUpdateRoles, end of one loop iteration: next update or return.
BatchAdvance(rec) ==
  IF rec.i + 1 > Len(rec.updates)
  THEN [rec EXCEPT !.i = @ + 1, !.pc = "done", !.result = "counts"]
  ELSE [rec EXCEPT !.i = @ + 1, !.pc = "bstep"]

\* A reconcile that counts a move as an update.
UpsertReturn_countsUpdated(rec, action) ==
  IF rec.kind = "batch" THEN BatchAdvance([rec EXCEPT !.updated = @ + 1])
  ELSE IF rec.kind = "updateRole" THEN [rec EXCEPT !.pc = "done", !.result = "true"]
  ELSE [rec EXCEPT !.pc = "done", !.result = action]

\* upsertWallet returns `action` to whoever called it.
UpsertReturn(rec, action) ==
  IF rec.kind = "batch" THEN BatchAdvance([rec EXCEPT !.moved = @ + 1])
  ELSE IF rec.kind = "updateRole" THEN [rec EXCEPT !.pc = "done", !.result = "true"]
  ELSE [rec EXCEPT !.pc = "done", !.result = action]

\* ------------------------------------------------------------- upsertWallet
StartUpsert(t) ==
  /\ CanStart(t)
  /\ RoomLeft
  /\ \E id \in Users, p \in Profiles, role \in RoleLabels :
       Started(t, [IdleT EXCEPT !.kind = "upsert", !.pc = "ensure",
                     !.arg = [discordId |-> id, discordUsername |-> p.name,
                              wallet |-> p.wallet, role |-> role]])

\* lines 111-118: ensureSheetSetup, then the target sheet or 'skipped'.
UpsertEnsure(t) ==
  /\ th[t].pc = "ensure"
  /\ header' = ensureSheetSetup(header)
  /\ th' = [th EXCEPT ![t] =
       IF getSheetNameForRole(th[t].arg.role) = NoSheet
       THEN UpsertReturn(EnsureLogged(th[t]), "skipped")
       ELSE [EnsureLogged(th[t]) EXCEPT !.pc = "scan", !.k = 1, !.loc = NoLoc]]
  /\ UNCHANGED <<sheets, conc, ops, rt, rs, rf>>

\* An upsert that forgets the old row and goes straight to the insert.
AfterScan_noDelete(rec) ==
  IF rec.loc # NoLoc /\ rec.loc.sheetName # getSheetNameForRole(rec.arg.role)
  THEN [rec EXCEPT !.loc = NoLoc, !.pc = "write"]
  ELSE [rec EXCEPT !.pc = "write"]

\* lines 137-140 decide, once the scan is over, between delete and write.
AfterScan(rec) ==
  IF rec.loc # NoLoc /\ rec.loc.sheetName # getSheetNameForRole(rec.arg.role)
  THEN [rec EXCEPT !.pc = "del"]
  ELSE [rec EXCEPT !.pc = "write"]

\* lines 122-134: one values.get per sheet, stopping at the first match.
UpsertScan(t) ==
  /\ th[t].pc = "scan"
  /\ LET sheetName == SHEET_NAMES[th[t].k]
         i == FindRow(ValuesGet(sheets, sheetName), th[t].arg.discordId)
     IN th' = [th EXCEPT ![t] =
          IF i # 0
          THEN AfterScan([th[t] EXCEPT !.loc = [sheetName |-> sheetName, rowNumber |-> i + 1]])
          ELSE IF th[t].k < Len(SHEET_NAMES)
          THEN [th[t] EXCEPT !.k = @ + 1]
          ELSE AfterScan(th[t])]
  /\ UNCHANGED <<sheets, header, conc, ops, rt, rs, rf>>

\* lines 137-140: the row found in another sheet is deleted.
UpsertDelete(t) ==
  /\ th[t].pc = "del"
  /\ sheets' = deleteRowFromSheet(sheets, th[t].loc.sheetName, th[t].loc.rowNumber)
  /\ th' = [th EXCEPT ![t] =
       [Logged(th[t], "delete", th[t].loc.sheetName, th[t].loc.rowNumber)
          EXCEPT !.loc = NoLoc, !.pc = "write"]]
  /\ header' = HeaderAfterDelete(header, sheets, th[t].loc.sheetName, th[t].loc.rowNumber)
  /\ UNCHANGED <<conc, ops, rt, rs, rf>>

\* lines 144-168: append when there is no location, else overwrite A:D in place.
UpsertWrite(t) ==
  /\ th[t].pc = "write"
  /\ LET a == th[t].arg
         targetSheet == getSheetNameForRole(a.role)
         row == Row(a.discordUsername, a.discordId, a.wallet, a.role)
     IN IF th[t].loc = NoLoc
        THEN /\ sheets' = ValuesAppend(sheets, targetSheet, row)
             /\ th' = [th EXCEPT ![t] =
                  UpsertReturn(Logged(th[t], "append", targetSheet, 0), "inserted")]
        ELSE /\ sheets' = ValuesUpdateRow(sheets, targetSheet, th[t].loc.rowNumber, row)
             /\ th' = [th EXCEPT ![t] =
                  UpsertReturn(Logged(th[t], "update", targetSheet, th[t].loc.rowNumber),
                               "updated")]
  /\ UNCHANGED <<header, conc, ops, rt, rs, rf>>

\* --------------------------------------------------------------- updateRole
StartUpdateRole(t) ==
  /\ CanStart(t)
  /\ \E id \in Users, role \in RoleLabels :
       Started(t, [IdleT EXCEPT !.kind = "updateRole", !.pc = "gensure",
                     !.arg = [NoArg EXCEPT !.discordId = id, !.role = role]])

\* getWallet, line 197
GetWalletEnsure(t) ==
  /\ th[t].pc = "gensure"
  /\ header' = ensureSheetSetup(header)
  /\ th' = [th EXCEPT ![t] = [EnsureLogged(th[t]) EXCEPT !.pc = "gscan", !.k = 1]]
  /\ UNCHANGED <<sheets, conc, ops, rt, rs, rf>>

\* An updateRole that hands upsertWallet the stored fields in each other's place.
ExistingArgs_swapped(arg, row) ==
  [arg EXCEPT !.discordUsername = row.wallet, !.wallet = row.name]

\* lines 207 and 270-275: the arguments of the upsert, from the row getWallet returned.
ExistingArgs(arg, row) ==
  [arg EXCEPT !.discordUsername = row.name, !.wallet = row.wallet]

\* getWallet, lines 201-211, then updateRole, lines 267-276
GetWalletScan(t) ==
  /\ th[t].pc = "gscan"
  /\ LET rows == ValuesGet(sheets, SHEET_NAMES[th[t].k])
         i == FindRow(rows, th[t].arg.discordId)
     IN th' = [th EXCEPT ![t] =
          IF i # 0
          THEN [th[t] EXCEPT !.pc = "ensure",
                             !.loc = [sheetName |-> SHEET_NAMES[th[t].k], rowNumber |-> i + 1],
                             !.arg = ExistingArgs(th[t].arg, rows[i])]
          ELSE IF th[t].k < Len(SHEET_NAMES)
          THEN [th[t] EXCEPT !.k = @ + 1]
          ELSE [th[t] EXCEPT !.pc = "done", !.result = "false"]]
  /\ UNCHANGED <<sheets, header, conc, ops, rt, rs, rf>>

\* --------------------------------------------------------- batchUpdateRoles
\* The update built from a snapshot item (lines 500-507).
UpdateOf(item, newRole) ==
  [sheetName |-> item.sheetName, rowNumber |-> item.rowNumber,
   discordId |-> item.discordId, discordUsername |-> item.discordUsername,
   wallet |-> item.wallet, newRole |-> newRole]

Injective(f) == \A a, b \in DOMAIN f : a # b => f[a] # f[b]

\* The caller takes a snapshot and hands over updates for distinct rows of it, in any order.
StartBatch(t) ==
  /\ CanStart(t)
  /\ RoomLeft
  /\ LET snap == listWalletsWithRow(sheets) IN
     \E n \in 0..(IF Len(snap) < MaxUpdates THEN Len(snap) ELSE MaxUpdates) :
       \E pick \in [1..n -> 1..Len(snap)], roles \in [1..n -> RoleLabels] :
         /\ Injective(pick)
         /\ Started(t, [IdleT EXCEPT !.kind = "batch", !.pc = "bensure",
                          !.updates = [j \in 1..n |-> UpdateOf(snap[pick[j]], roles[j])]])

\* lines 281-285
BatchEnsure(t) ==
  /\ th[t].pc = "bensure"
  /\ IF Len(th[t].updates) = 0
     THEN /\ th' = [th EXCEPT ![t] = [th[t] EXCEPT !.pc = "done", !.result = "counts"]]
          /\ UNCHANGED header
     ELSE /\ th' = [th EXCEPT ![t] = [EnsureLogged(th[t]) EXCEPT !.pc = "bstep", !.i = 1]]
          /\ header' = ensureSheetSetup(header)
  /\ UNCHANGED <<sheets, conc, ops, rt, rs, rf>>

\* lines 288-317: the first remote call of one loop iteration.
BatchStep(t) ==
  /\ th[t].pc = "bstep"
  /\ LET u == th[t].updates[th[t].i]
         targetSheet == getSheetNameForRole(u.newRole)
     IN IF targetSheet = NoSheet
        THEN /\ sheets' = deleteRowFromSheet(sheets, u.sheetName, u.rowNumber)
             /\ header' = HeaderAfterDelete(header, sheets, u.sheetName, u.rowNumber)
             /\ th' = [th EXCEPT ![t] =
                  BatchAdvance([Logged(th[t], "delete", u.sheetName, u.rowNumber)
                                  EXCEPT !.updated = @ + 1])]
        ELSE IF u.sheetName # targetSheet
        THEN /\ sheets' = deleteRowFromSheet(sheets, u.sheetName, u.rowNumber)
             /\ header' = HeaderAfterDelete(header, sheets, u.sheetName, u.rowNumber)
             /\ th' = [th EXCEPT ![t] =
                  [Logged(th[t], "delete", u.sheetName, u.rowNumber)
                     EXCEPT !.pc = "ensure",
                            !.arg = [discordId |-> u.discordId,
                                     discordUsername |-> u.discordUsername,
                                     wallet |-> u.wallet, role |-> u.newRole]]]
        ELSE /\ sheets' = ValuesUpdateRole(sheets, u.sheetName, u.rowNumber, u.newRole)
             /\ UNCHANGED header
             /\ th' = [th EXCEPT ![t] =
                  BatchAdvance([Logged(th[t], "role", u.sheetName, u.rowNumber)
                                  EXCEPT !.updated = @ + 1])]
  /\ UNCHANGED <<conc, ops, rt, rs, rf>>

\* ---------------------------------------------------------- batchDeleteRows
\* A filter without the floor on the row number.
ValidItem_noFloor(item) == item.sheetName # ""

\* line 334: the items that are kept.
ValidItem(item) == item.sheetName # "" /\ item.rowNumber >= 2

\* bySheet's keys, in the order of their first item (lines 331-337, 340).
RECURSIVE SheetOrder(_, _)
SheetOrder(items, seen) ==
  IF items = <<>> THEN <<>>
  ELSE IF ValidItem(Head(items)) /\ Head(items).sheetName \notin seen
  THEN <<Head(items).sheetName>> \o SheetOrder(Tail(items), seen \cup {Head(items).sheetName})
  ELSE SheetOrder(Tail(items), seen)

\* new Set(rowNumbers) of one sheet
RowSet(items, sheetName) ==
  {items[j].rowNumber : j \in {j \in 1..Len(items) : ValidItem(items[j]) /\ items[j].sheetName = sheetName}}

RECURSIVE SortAscending(_)
SortAscending(S) ==
  IF S = {} THEN <<>>
  ELSE LET m == CHOOSE x \in S : \A y \in S : x <= y IN <<m>> \o SortAscending(S \ {m})

RECURSIVE SortDescending(_)
\* line 341: sort((a, b) => b - a)
SortDescending(S) ==
  IF S = {} THEN <<>>
  ELSE LET m == CHOOSE x \in S : \A y \in S : x >= y IN <<m>> \o SortDescending(S \ {m})

\* lines 340-346: the deletions in the order they are issued.
DeletePlan(items) ==
  LET order == SheetOrder(items, {}) IN
  Concat([n \in 1..Len(order) |->
    LET sorted == SortDescending(RowSet(items, order[n])) IN
    [j \in 1..Len(sorted) |-> [sheetName |-> order[n], rowNumber |-> sorted[j]]]])

\* The caller hands over locations of a snapshot, in any order, repeats included.
StartDelete(t) ==
  /\ CanStart(t)
  /\ LET snap == listWalletsWithRow(sheets) IN
     \E n \in 0..MaxItems :
       \E pick \in [1..n -> 1..Len(snap)] :
         Started(t, [IdleT EXCEPT !.kind = "bdel", !.pc = "densure",
                       !.items = [j \in 1..n |-> [sheetName |-> snap[pick[j]].sheetName,
                                                    rowNumber |-> snap[pick[j]].rowNumber]]])

\* Items no snapshot yields: row 1 of a sheet, and an item without sheet name.
OddItems == {[sheetName |-> SHEET_NAMES[1], rowNumber |-> 1], [sheetName |-> "", rowNumber |-> 2]}

\* The caller hands over any items, those of a snapshot or not.
StartDeleteAny(t) ==
  /\ CanStart(t)
  /\ LET snap == listWalletsWithRow(sheets)
         cands == {[sheetName |-> snap[j].sheetName, rowNumber |-> snap[j].rowNumber] :
                     j \in 1..Len(snap)} \cup OddItems
     IN \E n \in 1..MaxItems :
          \E items \in [1..n -> cands] :
            /\ \E j \in 1..n : items[j] \in OddItems
            /\ Started(t, [IdleT EXCEPT !.kind = "bdel", !.pc = "densure", !.items = items])

\* lines 325-337
DeleteEnsure(t) ==
  /\ th[t].pc = "densure"
  /\ header' = ensureSheetSetup(header)
  /\ th' = [th EXCEPT ![t] =
       IF DeletePlan(th[t].items) = <<>>
       THEN [EnsureLogged(th[t]) EXCEPT !.pc = "done", !.result = "deleted"]
       ELSE [EnsureLogged(th[t]) EXCEPT !.pc = "dstep", !.queue = DeletePlan(th[t].items)]]
  /\ UNCHANGED <<sheets, conc, ops, rt, rs, rf>>

\* lines 342-345
DeleteStep(t) ==
  /\ th[t].pc = "dstep"
  /\ LET d == Head(th[t].queue) IN
     /\ sheets' = deleteRowFromSheet(sheets, d.sheetName, d.rowNumber)
     /\ header' = HeaderAfterDelete(header, sheets, d.sheetName, d.rowNumber)
     /\ th' = [th EXCEPT ![t] =
          [Logged(th[t], "delete", d.sheetName, d.rowNumber)
             EXCEPT !.queue = Tail(@), !.deleted = @ + 1,
                    !.pc = IF Tail(th[t].queue) = <<>> THEN "done" ELSE "dstep",
                    !.result = IF Tail(th[t].queue) = <<>> THEN "deleted" ELSE "none"]]
  /\ UNCHANGED <<conc, ops, rt, rs, rf>>

\* The caller invokes upsertWallet a second time with the same arguments.
UpsertAgain(t) ==
  /\ th[t].pc = "done" /\ th[t].kind = "upsert" /\ ~th[t].rep
  /\ th' = [th EXCEPT ![t] =
       [IdleT EXCEPT !.kind = "upsert", !.pc = "ensure", !.arg = th[t].arg,
                     !.pre = sheets, !.hpre = header, !.rep = TRUE]]
  /\ UNCHANGED <<sheets, header, conc, ops, rt, rs, rf>>

\* A handler that catches the error of its remote call and reports success.
Thrown_swallowed(rec) ==
  [rec EXCEPT !.pc = "done", !.result = "inserted", !.failedAt = rec.pc]

\* line 62: the error leaves callWithRetry; no handler of the module catches
\* it, so the exported function rejects where it stands.
Thrown(rec) ==
  [rec EXCEPT !.pc = "done", !.result = "error", !.failedAt = rec.pc]

\* The remote call the handler is waiting for fails for good: an error that is
\* not a rate-limit signal, or the fifth rate-limit error.  The call had no effect.
RemoteFails(t) ==
  /\ \/ th[t].pc \in {"ensure", "scan", "del", "write", "gensure", "gscan",
                      "bstep", "densure", "dstep"}
     \/ th[t].pc = "bensure" /\ th[t].updates # <<>>
  /\ th' = [th EXCEPT ![t] = Thrown(th[t])]
  /\ UNCHANGED <<sheets, header, conc, ops, rt, rs, rf>>

\* The handler's promise settles.
Return(t) ==
  /\ th[t].pc = "done"
  /\ th' = [th EXCEPT ![t] = IdleT]
  /\ UNCHANGED <<sheets, header, conc, ops, rt, rs, rf>>

\* ------------------------------------------------------------ callWithRetry
\* What the remote call does: `fails` rate-limit failures of the form `form`,
\* then `kind`.  `thrown` is the error object that reached the caller.
NoErr == [status |-> "none", call |-> 0]

NoRetry == [phase |-> "off", fails |-> 0, kind |-> "none", form |-> "none", attempt |-> 0,
            delayMs |-> 0, calls |-> 0, waits |-> <<>>, outcome |-> "none",
            thrown |-> NoErr]

\* Math.floor(Math.random() * 250) lies in 0..249; the ends and one inner value.
JitterSamples == {0, 1, JitterRange - 1}

\* A backoff that adds the initial delay instead of doubling.
NextDelay_linear(delayMs) ==
  IF delayMs + InitialDelayMs < DelayCapMs THEN delayMs + InitialDelayMs ELSE DelayCapMs

\* line 65
NextDelay(delayMs) == IF delayMs * 2 < DelayCapMs THEN delayMs * 2 ELSE DelayCapMs

\* The error object the n-th requestFn() rejects with, NoErr when it resolves.
Raised(n) ==
  IF n <= rt.fails THEN [status |-> rt.form, call |-> n]
  ELSE IF rt.kind = "other" THEN [status |-> "500", call |-> n]
  ELSE NoErr

\* lines 59-60: status === 429 || err.cause.status === 'RESOURCE_EXHAUSTED'
isRateLimited(err) == err.status = "429" \/ err.status = "RESOURCE_EXHAUSTED"

\* A test that lets the attempt counter reach maxAttempts before giving up.
GiveUp_lateStop(rateLimited, attempt) == ~rateLimited \/ attempt > maxAttempts

\* line 61: !isRateLimited || attempt >= maxAttempts
GiveUp(rateLimited, attempt) == ~rateLimited \/ attempt >= maxAttempts

\* lines 55-63: one pass of the loop up to the wait.
RetryInvoke ==
  /\ rt.phase = "call"
  /\ LET err == Raised(rt.calls + 1) IN
     rt' =
       IF err = NoErr
       THEN [rt EXCEPT !.calls = @ + 1, !.phase = "end", !.outcome = "ok"]
       ELSE IF GiveUp(isRateLimited(err), rt.attempt + 1)
       THEN \* throw err
            [rt EXCEPT !.calls = @ + 1, !.attempt = @ + 1, !.phase = "end",
                       !.outcome = IF isRateLimited(err) THEN "thrown rate limit"
                                   ELSE "thrown other",
                       !.thrown = err]
       ELSE [rt EXCEPT !.calls = @ + 1, !.attempt = @ + 1, !.phase = "wait"]
  /\ UNCHANGED <<sheets, header, th, conc, ops, rs, rf>>

\* lines 64-65
RetryWait ==
  /\ rt.phase = "wait"
  /\ \E jitter \in JitterSamples :
       rt' = [rt EXCEPT !.waits = Append(@, rt.delayMs + jitter),
                        !.delayMs = NextDelay(@), !.phase = "call"]
  /\ UNCHANGED <<sheets, header, th, conc, ops, rs, rf>>

\* ------------------------------------------------- refresh-wallet-roles
\* The guild as the lookups see it: for each user the set of priority role
\* labels of the member, or Gone when members.fetch rejects (no such member).
Gone == {"<no member>"}

\* lines 398-402: the label of the first priority role the member has, else ''.
getHighestPriorityRoleLabel(roleLabels) ==
  LET found == {n \in 1..Len(PRIORITY_ROLES) : PRIORITY_ROLES[n] \in roleLabels} IN
  IF found = {} THEN "" ELSE PRIORITY_ROLES[CHOOSE n \in found : \A m \in found : n <= m]

\* One worker per item in the place of the fixed pool.
Workers_perItem == 1..(NumRefreshRows + 1)

\* line 493: Array.from({ length: concurrencyLimit }, ...)
Workers == 1..concurrencyLimit

IdleW == [st |-> "off", item |-> 0]

\* The job that is not running.
NoRefresh ==
  [phase |-> "off", items |-> <<>>, queue |-> <<>>, computed |-> <<>>,
   w |-> [n \in Workers |-> IdleW], taken |-> <<>>, guild |-> <<>>, pre |-> EmptyTab]

RECURSIVE TakeLoop(_, _)
\* lines 494-496: the worker shifts items off the queue until one has an id,
\* and awaits its lookup; with the queue empty the worker returns.
TakeLoop(r, n) ==
  IF r.queue = <<>> THEN [r EXCEPT !.w[n] = [st |-> "finished", item |-> 0]]
  ELSE LET i == Head(r.queue)
           shifted == [r EXCEPT !.queue = Tail(@), !.taken[i] = @ + 1]
       IN IF r.items[i].discordId = "" THEN TakeLoop(shifted, n)
          ELSE [shifted EXCEPT !.w[n] = [st |-> "fetch", item |-> i]]

RECURSIVE Spawn(_, _)
\* line 493: the workers are created one after the other, each running up to
\* its first await before the next is created.
Spawn(r, n) ==
  IF n \notin Workers THEN r ELSE Spawn(TakeLoop(r, n), n + 1)

\* lines 500-507 and 509-516: the entry pushed to `computed`.
Pushed(r, n, role) ==
  [r EXCEPT !.computed = Append(@, UpdateOf(r.items[r.w[n].item], role))]

\* A wait for the first worker only (Promise.race in the place of Promise.all).
WorkersDone_any(w) == \E n \in DOMAIN w : w[n].st = "finished"

\* line 520: await Promise.all(workers)
WorkersDone(w) == \A n \in DOMAIN w : w[n].st = "finished"

\* lines 522-528: the computed entries whose role differs from the snapshot's.
Diffs(items, computed) ==
  SelectSeq(computed, LAMBDA c :
    LET found == {j \in 1..Len(items) : items[j].discordId = c.discordId} IN
    /\ found # {}
    /\ items[CHOOSE j \in found : \A k \in found : j <= k].role # c.newRole)

\* lines 486-488: the snapshot is taken.
RefreshSnapshot ==
  /\ rf.phase = "snap"
  /\ AllIdle
  /\ header' = ensureSheetSetup(header)
  /\ rf' = [rf EXCEPT !.phase = "spawn", !.items = listWalletsWithRow(sheets),
                      !.pre = sheets]
  /\ UNCHANGED <<sheets, th, conc, ops, rt, rs>>

\* lines 489-519, up to the first await of each worker.
RefreshSpawn ==
  /\ rf.phase = "spawn"
  /\ rf' = Spawn([rf EXCEPT !.phase = "lookup",
                            !.queue = [j \in 1..Len(rf.items) |-> j],
                            !.taken = [j \in 1..Len(rf.items) |-> 0]], 1)
  /\ UNCHANGED <<sheets, header, th, conc, ops, rt, rs>>

\* line 498 resolves.  With a member, line 499 reads its roles without a
\* remote call and the entry is pushed; without one, getMemberRoleIds fetches
\* the member again (line 391).
FetchDone(n) ==
  /\ rf.phase = "lookup"
  /\ rf.w[n].st = "fetch"
  /\ LET member == rf.guild[rf.items[rf.w[n].item].discordId] IN
     rf' = IF member = Gone
           THEN [rf EXCEPT !.w[n].st = "fallback"]
           ELSE TakeLoop(Pushed(rf, n, getHighestPriorityRoleLabel(member)), n)
  /\ UNCHANGED <<sheets, header, th, conc, ops, rt, rs>>

\* lines 391-395: the second fetch rejects too and the role is ''.
FallbackDone(n) ==
  /\ rf.phase = "lookup"
  /\ rf.w[n].st = "fallback"
  /\ rf' = TakeLoop(Pushed(rf, n, ""), n)
  /\ UNCHANGED <<sheets, header, th, conc, ops, rt, rs>>

\* lines 520-535: all workers have returned; the differences go to
\* batchUpdateRoles.  `computed` is not read after line 528 and is dropped.
RefreshReconcile ==
  /\ rf.phase = "lookup"
  /\ WorkersDone(rf.w)
  /\ LET diffs == Diffs(rf.items, rf.computed) IN
     IF diffs = <<>>
     THEN /\ rf' = [rf EXCEPT !.phase = "done", !.computed = <<>>]
          /\ UNCHANGED th
     ELSE /\ rf' = [rf EXCEPT !.phase = "reconcile", !.computed = <<>>]
          /\ th' = [th EXCEPT ![1] = [IdleT EXCEPT !.kind = "batch", !.pc = "bensure",
                                                   !.updates = diffs, !.pre = sheets,
                                                   !.hpre = header]]
  /\ UNCHANGED <<sheets, header, conc, ops, rt, rs>>

\* lines 533-538: batchUpdateRoles has returned.
RefreshFinish ==
  /\ rf.phase = "reconcile"
  /\ th[1].pc = "done"
  /\ rf' = [rf EXCEPT !.phase = "done"]
  /\ UNCHANGED <<sheets, header, th, conc, ops, rt, rs>>

\* ------------------------------------------------ prune-no-priority-roles
\* lines 596-597: the role ids of the member, none when the fetch gave null.
hasAnyPriority(member) ==
  member # Gone /\ \E n \in 1..Len(PRIORITY_ROLES) : PRIORITY_ROLES[n] \in member

\* lines 583-585: the snapshot is taken.
PruneSnapshot ==
  /\ rf.phase = "psnap"
  /\ AllIdle
  /\ header' = ensureSheetSetup(header)
  /\ rf' = [rf EXCEPT !.phase = "pspawn", !.items = listWalletsWithRow(sheets),
                      !.pre = sheets]
  /\ UNCHANGED <<sheets, th, conc, ops, rt, rs>>

\* lines 586-593, up to the first await of each worker.
PruneSpawn ==
  /\ rf.phase = "pspawn"
  /\ rf' = Spawn([rf EXCEPT !.phase = "plookup",
                            !.queue = [j \in 1..Len(rf.items) |-> j],
                            !.taken = [j \in 1..Len(rf.items) |-> 0]], 1)
  /\ UNCHANGED <<sheets, header, th, conc, ops, rt, rs>>

\* lines 595-600: members.fetch settles.  It resolves with the member, or it
\* rejects (always for a user who is no member, and for a member when the
\* request fails) and .catch(() => null) turns that into no member.
PruneFetchDone(n) ==
  /\ rf.phase = "plookup"
  /\ rf.w[n].st = "fetch"
  /\ LET it == rf.items[rf.w[n].item] IN
     \E member \in {rf.guild[it.discordId], Gone} :
       rf' = TakeLoop(
               IF hasAnyPriority(member) THEN rf
               ELSE [rf EXCEPT !.computed =
                       Append(@, [sheetName |-> it.sheetName, rowNumber |-> it.rowNumber])],
               n)
  /\ UNCHANGED <<sheets, header, th, conc, ops, rt, rs>>

\* lines 604-608: all workers have returned; toDelete goes to batchDeleteRows.
PruneDelete ==
  /\ rf.phase = "plookup"
  /\ WorkersDone(rf.w)
  /\ IF rf.computed = <<>>
     THEN /\ rf' = [rf EXCEPT !.phase = "done"]
          /\ UNCHANGED th
     ELSE /\ rf' = [rf EXCEPT !.phase = "pdelete", !.computed = <<>>]
          /\ th' = [th EXCEPT ![1] = [IdleT EXCEPT !.kind = "bdel", !.pc = "densure",
                                                   !.items = rf.computed, !.pre = sheets,
                                                   !.hpre = header]]
  /\ UNCHANGED <<sheets, header, conc, ops, rt, rs>>

\* lines 607-612: batchDeleteRows has returned.
PruneFinish ==
  /\ rf.phase = "pdelete"
  /\ th[1].pc = "done"
  /\ rf' = [rf EXCEPT !.phase = "done"]
  /\ UNCHANGED <<sheets, header, th, conc, ops, rt, rs>>

\* ------------------------------------------------ fill-monad-airdrop-role
\* line 543: the id of the Monad Airdrop role; a member's roles are kept by
\* label, so the id is written as the label of the role it names.
ROLE_ID == "Monad Airdrop"

\* line 545: the items whose role is blank.
targets(items) == SelectSeq(items, LAMBDA i : i.role = "")

\* line 557: !!member?.roles?.cache?.has(ROLE_ID)
hasRole(member) == member # Gone /\ ROLE_ID \in member

\* lines 542-546: the snapshot is taken and filtered.
FillSnapshot ==
  /\ rf.phase = "fsnap"
  /\ AllIdle
  /\ header' = ensureSheetSetup(header)
  /\ rf' = [rf EXCEPT !.phase = "fspawn", !.items = targets(listWalletsWithRow(sheets)),
                      !.pre = sheets]
  /\ UNCHANGED <<sheets, th, conc, ops, rt, rs>>

\* lines 547-556, up to the first await of each worker.
FillSpawn ==
  /\ rf.phase = "fspawn"
  /\ rf' = Spawn([rf EXCEPT !.phase = "flookup",
                            !.queue = [j \in 1..Len(rf.items) |-> j],
                            !.taken = [j \in 1..Len(rf.items) |-> 0]], 1)
  /\ UNCHANGED <<sheets, header, th, conc, ops, rt, rs>>

\* lines 556-567: members.fetch settles (a rejection becomes null), and the
\* item is pushed to `updates` with newRole 'Monad Airdrop' if the member has
\* the role.
FillFetchDone(n) ==
  /\ rf.phase = "flookup"
  /\ rf.w[n].st = "fetch"
  /\ \E member \in {rf.guild[rf.items[rf.w[n].item].discordId], Gone} :
       rf' = TakeLoop(IF hasRole(member) THEN Pushed(rf, n, "Monad Airdrop") ELSE rf, n)
  /\ UNCHANGED <<sheets, header, th, conc, ops, rt, rs>>

\* lines 571-575: all workers have returned; updates go to batchUpdateRoles.
FillWrite ==
  /\ rf.phase = "flookup"
  /\ WorkersDone(rf.w)
  /\ IF rf.computed = <<>>
     THEN /\ rf' = [rf EXCEPT !.phase = "done"]
          /\ UNCHANGED th
     ELSE /\ rf' = [rf EXCEPT !.phase = "fwrite", !.computed = <<>>]
          /\ th' = [th EXCEPT ![1] = [IdleT EXCEPT !.kind = "batch", !.pc = "bensure",
                                                   !.updates = rf.computed, !.pre = sheets,
                                                   !.hpre = header]]
  /\ UNCHANGED <<sheets, header, conc, ops, rt, rs>>

\* lines 574-579: batchUpdateRoles has returned.
FillFinish ==
  /\ rf.phase = "fwrite"
  /\ th[1].pc = "done"
  /\ rf' = [rf EXCEPT !.phase = "done"]
  /\ UNCHANGED <<sheets, header, th, conc, ops, rt, rs>>

\* ------------------------------------------------- the resolver on its own
NoResolve == [phase |-> "off", a |-> "", b |-> "", ra |-> NoSheet, rb |-> NoSheet]

\* getSheetNameForRole applied to two labels.
Resolve ==
  /\ rs.phase = "in"
  /\ rs' = [rs EXCEPT !.phase = "out", !.ra = getSheetNameForRole(rs.a),
                      !.rb = getSheetNameForRole(rs.b)]
  /\ UNCHANGED <<sheets, header, th, conc, ops, rt, rf>>

\* ----------------------------------------------------------- specifications
Init ==
  /\ sheets = EmptyTab
  /\ header = [s \in SheetSet |-> HEADER_ROW]
  /\ th = [t \in Threads |-> IdleT]
  /\ conc = FALSE
  /\ ops = 0
  /\ rt = NoRetry
  /\ rs = NoResolve
  /\ rf = NoRefresh

Step(t) ==
  \/ StartUpsert(t)
  \/ UpsertEnsure(t)
  \/ UpsertScan(t)
  \/ UpsertDelete(t)
  \/ UpsertWrite(t)
  \/ StartUpdateRole(t)
  \/ GetWalletEnsure(t)
  \/ GetWalletScan(t)
  \/ StartBatch(t)
  \/ BatchEnsure(t)
  \/ BatchStep(t)
  \/ StartDelete(t)
  \/ DeleteEnsure(t)
  \/ DeleteStep(t)
  \/ Return(t)

Next == \E t \in Threads : Step(t) \/ UpsertAgain(t)

\* The handlers run one at a time, each to completion.
Spec == Init /\ [][Next]_vars

InitConc ==
  /\ sheets = EmptyTab
  /\ header = [s \in SheetSet |-> HEADER_ROW]
  /\ th = [t \in Threads |-> IdleT]
  /\ conc = TRUE
  /\ ops = 0
  /\ rt = NoRetry
  /\ rs = NoResolve
  /\ rf = NoRefresh

NextConc == \E t \in Threads : Step(t)

\* Two handlers whose awaits interleave (the event loop runs one until its next await).
SpecConc == InitConc /\ [][NextConc]_vars

InitRetry ==
  /\ sheets = EmptyTab
  /\ header = [s \in SheetSet |-> HEADER_ROW]
  /\ th = [t \in Threads |-> IdleT]
  /\ conc = FALSE
  /\ ops = 0
  /\ \E fails \in 0..MaxFailures, kind \in {"ok", "other"},
        form \in {"429", "RESOURCE_EXHAUSTED"} :
       rt = [NoRetry EXCEPT !.phase = "call", !.fails = fails, !.kind = kind,
                            !.form = form, !.delayMs = InitialDelayMs]
  /\ rs = NoResolve
  /\ rf = NoRefresh

NextRetry == RetryInvoke \/ RetryWait

\* One callWithRetry around a remote call that fails a chosen number of times.
SpecRetry == InitRetry /\ [][NextRetry]_vars

InitResolve ==
  /\ sheets = EmptyTab
  /\ header = [s \in SheetSet |-> HEADER_ROW]
  /\ th = [t \in Threads |-> IdleT]
  /\ conc = FALSE
  /\ ops = 0
  /\ rt = NoRetry
  /\ \E a \in ResolverInputs, b \in ResolverInputs :
       rs = [NoResolve EXCEPT !.phase = "in", !.a = a, !.b = b]
  /\ rf = NoRefresh

NextResolve == Resolve

\* getSheetNameForRole alone, on every pair of labels of the input space.
SpecResolve == InitResolve /\ [][NextResolve]_vars

\* Tables in which a userId may be in several rows, as interleaved upserts
\* leave them: every sheet holds up to MaxDupRows rows of any users, each row
\* with the role of its sheet.
RoleOfSheet == [Monadians |-> "Monadian", Monarch |-> "Monarch", Monalista |-> "Monalista"]

DupSheet(sheetName) ==
  UNION {{[i \in 1..n |-> Row("alice", ids[i], "0xA", RoleOfSheet[sheetName])] :
            ids \in [1..n -> Users]} : n \in 0..MaxDupRows}

InitLocate ==
  /\ sheets \in [SheetSet -> UNION {DupSheet(s) : s \in SheetSet}]
  /\ \A s \in SheetSet : sheets[s] \in DupSheet(s)
  /\ header = [s \in SheetSet |-> HEADER_ROW]
  /\ th = [t \in Threads |-> IdleT]
  /\ conc = FALSE
  /\ ops = 0
  /\ rt = NoRetry
  /\ rs = NoResolve
  /\ rf = NoRefresh

NextLocate ==
  \E t \in Threads :
    \/ StartUpsert(t)
    \/ UpsertEnsure(t)
    \/ UpsertScan(t)
    \/ UpsertDelete(t)
    \/ UpsertWrite(t)
    \/ StartUpdateRole(t)
    \/ GetWalletEnsure(t)
    \/ GetWalletScan(t)

\* One upsertWallet or updateRole on a table that may hold duplicates.
SpecLocate == InitLocate /\ [][NextLocate]_vars

\* Row 1 of a sheet before the first ensureSheetSetup: no sheet, an empty row,
\* a row that lacks the last column, a row with another title, the header.
HeaderStates ==
  {Absent, <<>>, <<"Discord Username", "Discord ID", "EVM Wallet">>,
   <<"Discord Username", "Discord ID", "Wallet", "Role">>, HEADER_ROW}

InitHeader ==
  /\ sheets = EmptyTab
  /\ header \in [SheetSet -> HeaderStates]
  /\ th = [t \in Threads |-> IdleT]
  /\ conc = FALSE
  /\ ops = 0
  /\ rt = NoRetry
  /\ rs = NoResolve
  /\ rf = NoRefresh

NextHeader == \E t \in Threads : Step(t) \/ StartDeleteAny(t)

\* The handlers one at a time on a spreadsheet whose layout is not yet set up,
\* batchDeleteRows being handed any items.
SpecHeader == InitHeader /\ [][NextHeader]_vars

NextFail == \E t \in Threads : Step(t) \/ RemoteFails(t)

\* The handlers one at a time, any remote call of which may fail for good.
SpecFail == Init /\ [][NextFail]_vars

\* The users of the refreshed table.
RefreshUsers == {UserIds[n] : n \in 1..NumRefreshRows}

\* The sheet of the n-th user: the first half of the users are in the first
\* sheet, the last user is in the last sheet, the others in the second.
SheetOfUser(n, total) ==
  IF 2 * n <= total THEN SHEET_NAMES[1]
  ELSE IF n < total THEN SHEET_NAMES[2]
  ELSE SHEET_NAMES[3]

\* A table of `total` users over the three sheets, and below them a row that
\* holds a role and no id.
TableOf(total) ==
  [s \in SheetSet |->
     LET mine == SelectSeq([n \in 1..total |-> n], LAMBDA n : SheetOfUser(n, total) = s)
         rows == [j \in 1..Len(mine) |-> Row("alice", UserIds[mine[j]], "0xA", RoleOfSheet[s])]
     IN IF s = SHEET_NAMES[Len(SHEET_NAMES)]
        THEN Append(rows, Row("", "", "", RoleOfSheet[s])) ELSE rows]

\* The table a refresh starts from.
RefreshTable == TableOf(NumRefreshRows)

StoredRole(id) ==
  LET s == CHOOSE s \in SheetSet : \E i \in 1..Len(RefreshTable[s]) : RefreshTable[s][i].id = id
  IN RoleOfSheet[s]

\* What a member may have become since the table was written.
ChangedMember(id) ==
  {Gone, {}, IF StoredRole(id) = "Monarch" THEN {"Monadian", "Monarch"} ELSE {"Monarch", "Monalista"}}

InitRefresh ==
  /\ sheets = RefreshTable
  /\ header = [s \in SheetSet |-> HEADER_ROW]
  /\ th = [t \in Threads |-> IdleT]
  /\ conc = FALSE
  /\ ops = 0
  /\ rt = NoRetry
  /\ rs = NoResolve
  /\ \E changed \in SUBSET RefreshUsers :
       /\ Cardinality(changed) <= MaxChanged
       /\ \E new \in [changed -> UNION {ChangedMember(id) : id \in RefreshUsers}] :
            /\ \A id \in changed : new[id] \in ChangedMember(id)
            /\ rf = [NoRefresh EXCEPT
                       !.phase = "snap",
                       !.guild = [id \in RefreshUsers |->
                                    IF id \in changed THEN new[id] ELSE {StoredRole(id)}]]

NextRefresh ==
  \/ RefreshSnapshot
  \/ RefreshSpawn
  \/ \E n \in Workers : FetchDone(n)
  \/ \E n \in Workers : FallbackDone(n)
  \/ RefreshReconcile
  \/ RefreshFinish
  \/ \E t \in Threads :
       \/ BatchEnsure(t)
       \/ BatchStep(t)
       \/ UpsertEnsure(t)
       \/ UpsertScan(t)
       \/ UpsertDelete(t)
       \/ UpsertWrite(t)

\* One refresh-wallet-roles job, from its snapshot to the end of its reconcile.
SpecRefresh == InitRefresh /\ [][NextRefresh]_vars

\* The users of the pruned table.
PruneUsers == {UserIds[n] : n \in 1..NumPruneRows}

\* What each stored user is in the guild when the prune runs: a member with
\* the role of the sheet, a member without a priority role, or no member.
InitPrune ==
  /\ sheets = TableOf(NumPruneRows)
  /\ header = [s \in SheetSet |-> HEADER_ROW]
  /\ th = [t \in Threads |-> IdleT]
  /\ conc = FALSE
  /\ ops = 0
  /\ rt = NoRetry
  /\ rs = NoResolve
  /\ \E guild \in [PruneUsers -> {Gone, {}} \cup {{PRIORITY_ROLES[n]} : n \in 1..Len(PRIORITY_ROLES)}] :
       /\ \A id \in PruneUsers :
            \A s \in SheetSet :
              (\E i \in 1..Len(sheets[s]) : sheets[s][i].id = id) =>
                guild[id] \in {Gone, {}, {RoleOfSheet[s]}}
       /\ rf = [NoRefresh EXCEPT !.phase = "psnap", !.guild = guild]

NextPrune ==
  \/ PruneSnapshot
  \/ PruneSpawn
  \/ \E n \in Workers : PruneFetchDone(n)
  \/ PruneDelete
  \/ PruneFinish
  \/ \E t \in Threads :
       \/ DeleteEnsure(t)
       \/ DeleteStep(t)

\* One prune-no-priority-roles job, from its snapshot to the end of its deletions.
SpecPrune == InitPrune /\ [][NextPrune]_vars

\* The users of the table a fill starts from.
FillUsers == {UserIds[n] : n \in 1..NumFillRows}

\* The table with the role column of the rows of `blank` empty.
BlankRoles(tab, blank) ==
  [s \in SheetSet |->
     [i \in 1..Len(tab[s]) |->
        IF tab[s][i].id \in blank THEN [tab[s][i] EXCEPT !.role = ""] ELSE tab[s][i]]]

\* The table and the guild when the fill runs: any of the stored rows may have
\* a blank role, and each user has the Monad Airdrop role, has no role, or is
\* no member.
InitFill ==
  /\ \E blank \in SUBSET FillUsers : sheets = BlankRoles(TableOf(NumFillRows), blank)
  /\ header = [s \in SheetSet |-> HEADER_ROW]
  /\ th = [t \in Threads |-> IdleT]
  /\ conc = FALSE
  /\ ops = 0
  /\ rt = NoRetry
  /\ rs = NoResolve
  /\ \E guild \in [FillUsers -> {Gone, {}, {ROLE_ID}}] :
       rf = [NoRefresh EXCEPT !.phase = "fsnap", !.guild = guild]

NextFill ==
  \/ FillSnapshot
  \/ FillSpawn
  \/ \E n \in Workers : FillFetchDone(n)
  \/ FillWrite
  \/ FillFinish
  \/ \E t \in Threads :
       \/ BatchEnsure(t)
       \/ BatchStep(t)

\* One fill-monad-airdrop-role job, from its snapshot to the end of its writes.
SpecFill == InitFill /\ [][NextFill]_vars

\* ------------------------------------------------------------------- claims
\* What the specification says of a role label, stated apart from the code.
Resolves(role) == toLowerCase(role) \in {"monadian", "monarch", "monalista"}

PartitionOf(role) ==
  CASE toLowerCase(role) = "monadian" -> "Monadians"
    [] toLowerCase(role) = "monarch" -> "Monarch"
    [] toLowerCase(role) = "monalista" -> "Monalista"
    [] OTHER -> NoSheet

Places(tab, id) ==
  {p \in UNION {{<<s, i>> : i \in 1..Len(tab[s])} : s \in SheetSet} : tab[p[1]][p[2]].id = id}

CountRows(tab, id) == Cardinality(Places(tab, id))

SheetsHolding(tab, id) == {p[1] : p \in Places(tab, id)}

Settled == \A t \in Threads : th[t].pc \in {"idle", "done"}

RECURSIVE KeepRows(_, _, _)
\* rows without the rows whose index is in `gone`, from index i on
KeepRows(rows, gone, i) ==
  IF i > Len(rows) THEN <<>>
  ELSE (IF i \in gone THEN <<>> ELSE <<rows[i]>>) \o KeepRows(rows, gone, i + 1)

\* C1: an upsert with a resolvable role, run alone, leaves exactly one row with
\* that userId, in the partition of the role; a row in another partition is gone.
C1_UpsertOneRowInTarget ==
  \A t \in Threads :
    (th[t].kind = "upsert" /\ th[t].pc = "done" /\ Resolves(th[t].arg.role)) =>
      /\ CountRows(sheets, th[t].arg.discordId) = 1
      /\ SheetsHolding(sheets, th[t].arg.discordId) = {PartitionOf(th[t].arg.role)}
      /\ th[t].result \in {"inserted", "updated"}

C1_Witness ==
  \E t \in Threads :
    /\ th[t].kind = "upsert" /\ th[t].pc = "done" /\ Resolves(th[t].arg.role)
    /\ SheetsHolding(th[t].pre, th[t].arg.discordId) # {}
    /\ SheetsHolding(th[t].pre, th[t].arg.discordId) # {PartitionOf(th[t].arg.role)}

\* C2 (I1): with the handlers run one at a time from empty partitions, every
\* settled state has each user_id in at most one row of at most one partition.
C2_I1_Settled ==
  Settled => \A id \in Users : CountRows(sheets, id) <= 1

C2_Witness ==
  \E t \in Threads :
    /\ th[t].kind = "batch" /\ th[t].pc = "done" /\ th[t].moved >= 1
    /\ \E j \in 1..Len(th[t].updates) :
         /\ th[t].updates[j].discordId \in Users
         /\ th[t].updates[j].sheetName # getSheetNameForRole(th[t].updates[j].newRole)
         /\ CountRows(sheets, th[t].updates[j].discordId) = 1

\* C3 (I1 under interleaving): once handlers whose remote calls interleaved
\* have all completed, each user_id is in at most one row.
C3_I1_AfterInterleaving ==
  (conc /\ Settled) => \A id \in Users : CountRows(sheets, id) <= 1

\* C4: after a reconcile fed from a fresh snapshot, every user named in a
\* transition is in the partition of its new role (in none when it resolves to
\* none), and the rows of the users not named are as before.
C4_ReconcileAppliesEachTransition ==
  \A t \in Threads :
    (th[t].kind = "batch" /\ th[t].pc = "done" /\ ~conc) =>
      LET named == {th[t].updates[j].discordId : j \in 1..Len(th[t].updates)} IN
      /\ \A j \in 1..Len(th[t].updates) :
           LET u == th[t].updates[j] IN
           u.discordId \in Users =>
             IF Resolves(u.newRole)
             THEN /\ CountRows(sheets, u.discordId) = 1
                  /\ SheetsHolding(sheets, u.discordId) = {PartitionOf(u.newRole)}
             ELSE CountRows(sheets, u.discordId) = 0
      /\ \A id \in Users \ named :
           {<<p[1], th[t].pre[p[1]][p[2]]>> : p \in Places(th[t].pre, id)}
             = {<<p[1], sheets[p[1]][p[2]]>> : p \in Places(sheets, id)}

\* C5: the row deletions one reconcile issues against the same partition are
\* issued in descending row-index order.
C5_ReconcileDeletesDescending ==
  \A t \in Threads :
    th[t].kind = "batch" =>
      \A a, b \in 1..Len(th[t].log) :
        (a < b /\ th[t].log[a].op = "delete" /\ th[t].log[b].op = "delete"
           /\ th[t].log[a].sheetName = th[t].log[b].sheetName)
          => th[t].log[a].rowNumber > th[t].log[b].rowNumber

\* C6: deleteMany issues its deletions partition by partition and, within a
\* partition, in strictly descending row order; with the items taken from one
\* snapshot, exactly the listed rows are removed and the other rows keep their
\* content and order.
C6_DeleteManyDescendingExact ==
  \A t \in Threads :
    (th[t].kind = "bdel" /\ ~conc) =>
      LET log == th[t].log
          listed(s) == {th[t].items[j].rowNumber - 1 :
                          j \in {j \in 1..Len(th[t].items) : th[t].items[j].sheetName = s}}
      IN
      /\ \A a, b \in 1..Len(log) :
           (a < b /\ log[a].sheetName = log[b].sheetName)
             => log[a].rowNumber > log[b].rowNumber
      /\ \A a, b, c \in 1..Len(log) :
           (a < b /\ b < c /\ log[a].sheetName = log[c].sheetName)
             => log[b].sheetName = log[a].sheetName
      /\ \A a \in 1..Len(log) : log[a].op = "delete"
      /\ th[t].pc = "done" =>
           /\ \A s \in SheetSet : sheets[s] = Trim(KeepRows(th[t].pre[s], listed(s), 1))
           /\ th[t].deleted = Cardinality(UNION {{<<s, r>> : r \in listed(s)} : s \in SheetSet})

C6_Witness ==
  \E t \in Threads :
    /\ th[t].kind = "bdel" /\ th[t].pc = "done" /\ ~conc
    /\ Len(th[t].items) = 2 /\ Len(th[t].log) = 2
    /\ th[t].items[1].sheetName = th[t].items[2].sheetName
    /\ th[t].items[1].rowNumber < th[t].items[2].rowNumber
    /\ Len(sheets[th[t].items[1].sheetName]) >= 1

\* C7: an upsert whose role label resolves to none returns 'skipped' and
\* changes no data row: nothing is appended, overwritten or deleted.
C7_SkipChangesNothing ==
  \A t \in Threads :
    (th[t].kind = "upsert" /\ th[t].pc = "done" /\ ~conc /\ ~Resolves(th[t].arg.role)) =>
      /\ th[t].result = "skipped"
      /\ sheets = th[t].pre
      /\ th[t].log = <<>>

C7_Witness ==
  \E t \in Threads :
    /\ th[t].kind = "upsert" /\ th[t].pc = "done" /\ ~conc
    /\ th[t].arg.role = ""
    /\ th[t].result = "skipped"
    /\ CountRows(th[t].pre, th[t].arg.discordId) = 1

\* C8: a second upsert with the same inputs right after the first returns
\* 'updated' and leaves the table as the first left it: one row for the
\* userId, holding the given username, wallet and role.
C8_UpsertIdempotent ==
  \A t \in Threads :
    (th[t].kind = "upsert" /\ th[t].pc = "done" /\ th[t].rep /\ Resolves(th[t].arg.role)) =>
      LET a == th[t].arg IN
      /\ th[t].result = "updated"
      /\ sheets = th[t].pre
      /\ CountRows(sheets, a.discordId) = 1
      /\ \A p \in Places(sheets, a.discordId) :
           sheets[p[1]][p[2]] = Row(a.discordUsername, a.discordId, a.wallet, a.role)

C8_Witness ==
  \E t \in Threads :
    /\ th[t].kind = "upsert" /\ th[t].pc = "done" /\ th[t].rep
    /\ Resolves(th[t].arg.role)
    /\ th[t].result = "updated"

\* C9: in every state of a single upsert the userId is in at most one
\* partition; the old row is deleted before the append is issued, so between
\* the two the userId is in no partition.
C9_MoveDeletesBeforeAppend ==
  \A t \in Threads :
    (th[t].kind = "upsert" /\ ~conc) =>
      /\ Cardinality(SheetsHolding(sheets, th[t].arg.discordId)) <= 1
      /\ \A a, b \in 1..Len(th[t].log) :
           (th[t].log[a].op = "delete" /\ th[t].log[b].op = "append") => a < b
      /\ (th[t].pc = "write" /\ th[t].log # <<>>) =>
           CountRows(sheets, th[t].arg.discordId) = 0
      /\ (th[t].pc = "done" /\ th[t].result = "inserted"
            /\ SheetsHolding(th[t].pre, th[t].arg.discordId) # {}) =>
           /\ Len(th[t].log) = 2
           /\ th[t].log[1].op = "delete"
           /\ th[t].log[1].sheetName \in SheetsHolding(th[t].pre, th[t].arg.discordId)

C9_Witness ==
  \E t \in Threads :
    /\ th[t].kind = "upsert" /\ ~conc /\ th[t].pc = "write"
    /\ Len(th[t].log) = 1 /\ th[t].log[1].op = "delete"
    /\ CountRows(th[t].pre, th[t].arg.discordId) = 1
    /\ CountRows(sheets, th[t].arg.discordId) = 0

RECURSIVE Pow2(_)
Pow2(n) == IF n = 0 THEN 1 ELSE 2 * Pow2(n - 1)

\* the wait the retry policy prescribes before the i-th retry, jitter apart
PrescribedDelay(i) ==
  IF InitialDelayMs * Pow2(i - 1) < DelayCapMs THEN InitialDelayMs * Pow2(i - 1) ELSE DelayCapMs

\* C10: a call that fails with a rate-limit signal k times (k <= 4) and then
\* succeeds hands the caller the success after exactly k + 1 invocations, the
\* wait before the i-th retry being min(1000 * 2^(i-1), 15000) ms plus at most
\* 250 ms of jitter.
C10_RetryThenSuccess ==
  (rt.phase # "off" /\ rt.kind = "ok" /\ rt.fails <= maxAttempts - 1) =>
    /\ rt.outcome \in {"none", "ok"}
    /\ rt.calls <= rt.fails + 1
    /\ \A i \in 1..Len(rt.waits) :
         rt.waits[i] - PrescribedDelay(i) \in 0..JitterRange
    /\ rt.phase = "end" =>
         /\ rt.outcome = "ok"
         /\ rt.calls = rt.fails + 1
         /\ Len(rt.waits) = rt.fails

C10_Witness ==
  /\ rt.phase = "end" /\ rt.outcome = "ok" /\ rt.fails = 4
  /\ Len(rt.waits) = 4
  /\ rt.waits[4] >= 8000

\* C11: callWithRetry ends after at most 5 invocations of the remote call.  A
\* failure that is not a rate-limit signal reaches the caller right after the
\* attempt that raised it, with no further invocation and no wait; five
\* rate-limit failures in a row hand the caller the fifth; the error object
\* that reaches the caller is the one the last invocation raised.
C11_RetryGivesUp ==
  rt.phase # "off" =>
    /\ rt.calls <= maxAttempts
    /\ Len(rt.waits) <= maxAttempts - 1
    /\ rt.phase \in {"call", "wait"} => ENABLED NextRetry
    /\ rt.thrown # NoErr => (rt.phase = "end" /\ rt.thrown = Raised(rt.calls))
    /\ (rt.phase = "end" /\ rt.kind = "other" /\ rt.fails < maxAttempts) =>
         /\ rt.thrown = [status |-> "500", call |-> rt.fails + 1]
         /\ rt.calls = rt.fails + 1
         /\ Len(rt.waits) = rt.fails
    /\ (rt.phase = "end" /\ rt.fails >= maxAttempts) =>
         /\ rt.thrown = [status |-> rt.form, call |-> maxAttempts]
         /\ rt.calls = maxAttempts
         /\ Len(rt.waits) = maxAttempts - 1

C11_Witness ==
  /\ rt.phase = "end" /\ rt.fails >= maxAttempts
  /\ rt.thrown = [status |-> "RESOURCE_EXHAUSTED", call |-> maxAttempts]
  /\ Len(rt.waits) = maxAttempts - 1

\* The spellings of each known role label, whatever the letter case.
Spellings ==
  [Monadians |-> {"Monadian", "monadian", "MONADIAN", "mOnAdIaN"},
   Monarch |-> {"Monarch", "monarch", "MONARCH"},
   Monalista |-> {"Monalista", "monalista", "MONALISTA", "MonaLista"}]

\* C12: the resolver maps every spelling of a known role label, in any letter
\* case, to the partition of that label, the three partitions being distinct,
\* and every other input, the empty string and the absent label included, to
\* none; two labels that differ in letter case only resolve alike.
C12_ResolverCaseInsensitive ==
  rs.phase = "out" =>
    /\ \A s \in SheetSet : rs.a \in Spellings[s] => rs.ra = s
    /\ (\A s \in SheetSet : rs.a \notin Spellings[s]) => rs.ra = NoSheet
    /\ (\E s \in SheetSet : rs.a \in Spellings[s] /\ rs.b \in Spellings[s]) => rs.ra = rs.rb
    /\ (\E s, u \in SheetSet : s # u /\ rs.a \in Spellings[s] /\ rs.b \in Spellings[u])
         => (rs.ra # rs.rb /\ rs.ra # NoSheet /\ rs.rb # NoSheet)
    /\ rs.a = rs.b => rs.ra = rs.rb

C12_Witness ==
  /\ rs.phase = "out"
  /\ rs.a = "mOnAdIaN" /\ rs.ra = "Monadians"
  /\ rs.b = Undefined /\ rs.rb = NoSheet

\* The table the specification prescribes after an upsert of (id, name, wallet,
\* role) on a table that holds at most one row for id.
ExpectedUpsert(tab, id, name, wallet, role) ==
  IF ~Resolves(role) THEN tab
  ELSE LET target == PartitionOf(role)
           row == Row(name, id, wallet, role)
       IN IF \E i \in 1..Len(tab[target]) : tab[target][i].id = id
          THEN [tab EXCEPT ![target] = [i \in 1..Len(@) |-> IF @[i].id = id THEN row ELSE @[i]]]
          ELSE [s \in SheetSet |->
                  LET kept == Trim(KeepRows(tab[s], {i \in 1..Len(tab[s]) : tab[s][i].id = id}, 1))
                  IN IF s = target THEN Append(kept, row) ELSE kept]

\* C13: updateRole on a userId that has no row writes and deletes nothing and
\* returns false; on a userId that has a row it returns true and the table is
\* the one an upsert of (userId, stored username, stored wallet, roleLabel)
\* leaves, so the stored username and wallet survive the role change.
C13_UpdateRoleDelegates ==
  \A t \in Threads :
    (th[t].kind = "updateRole" /\ th[t].pc = "done" /\ ~conc) =>
      LET id == th[t].arg.discordId IN
      IF CountRows(th[t].pre, id) = 0
      THEN /\ th[t].result = "false"
           /\ sheets = th[t].pre
           /\ th[t].log = <<>>
      ELSE /\ th[t].result = "true"
           /\ \A p \in Places(th[t].pre, id) :
                LET stored == th[t].pre[p[1]][p[2]] IN
                /\ sheets = ExpectedUpsert(th[t].pre, id, stored.name, stored.wallet, th[t].arg.role)
                /\ \A q \in Places(sheets, id) :
                     /\ sheets[q[1]][q[2]].name = stored.name
                     /\ sheets[q[1]][q[2]].wallet = stored.wallet

C13_Witness ==
  \E t \in Threads :
    /\ th[t].kind = "updateRole" /\ th[t].pc = "done" /\ ~conc
    /\ th[t].result = "true"
    /\ Resolves(th[t].arg.role)
    /\ \E p \in Places(th[t].pre, th[t].arg.discordId) :
         /\ p[1] # PartitionOf(th[t].arg.role)
         /\ th[t].pre[p[1]][p[2]].name = "bob"
    /\ \E q \in Places(sheets, th[t].arg.discordId) :
         sheets[q[1]][q[2]] = Row("bob", th[t].arg.discordId, "0xB", th[t].arg.role)

\* An updateRole that found no row.
C13_WitnessAbsent ==
  \E t \in Threads :
    /\ th[t].kind = "updateRole" /\ th[t].pc = "done" /\ th[t].result = "false"
    /\ TotalRows(sheets, Len(SHEET_NAMES)) >= 1

\* The occurrences of id, as (partition priority, data row index).
Occurrences(tab, id) ==
  {o \in UNION {{<<k, i>> : i \in 1..Len(tab[SHEET_NAMES[k]])} : k \in 1..Len(SHEET_NAMES)} :
     tab[SHEET_NAMES[o[1]]][o[2]].id = id}

\* The occurrence in the highest-priority partition, lowest row first.
FirstOccurrence(tab, id) ==
  CHOOSE o \in Occurrences(tab, id) :
    \A q \in Occurrences(tab, id) : o[1] < q[1] \/ (o[1] = q[1] /\ o[2] <= q[2])

FirstLocation(tab, id) ==
  IF Occurrences(tab, id) = {} THEN NoLoc
  ELSE [sheetName |-> SHEET_NAMES[FirstOccurrence(tab, id)[1]],
        rowNumber |-> FirstOccurrence(tab, id)[2] + 1]

\* C14: the locator of getWallet and of upsertWallet returns the first row
\* with the userId, the partitions taken in the order P1, P2, P3 and the rows
\* top to bottom: none exactly when no partition has such a row, and with a
\* duplicated userId the occurrence in the highest-priority partition with
\* the lowest row index.
C14_LocatorFirstMatch ==
  \A t \in Threads :
    (~conc /\ th[t].kind \in {"upsert", "updateRole"} /\ th[t].log = <<>>) =>
      LET id == th[t].arg.discordId
          first == FirstLocation(sheets, id)
      IN
      /\ (th[t].kind = "updateRole" /\ th[t].pc = "ensure") =>
           /\ th[t].loc = first /\ first # NoLoc
           /\ th[t].arg.discordUsername = sheets[first.sheetName][first.rowNumber - 1].name
           /\ th[t].arg.wallet = sheets[first.sheetName][first.rowNumber - 1].wallet
      /\ (th[t].kind = "updateRole" /\ th[t].pc = "done" /\ th[t].result = "false") =>
           first = NoLoc
      /\ (th[t].kind = "updateRole" /\ th[t].pc = "done" /\ th[t].result = "true") =>
           first # NoLoc
      /\ th[t].pc \in {"del", "write"} => th[t].loc = first
      /\ th[t].pc = "del" => first.sheetName # PartitionOf(th[t].arg.role)

C14_Witness ==
  \E t \in Threads :
    /\ ~conc /\ th[t].kind = "updateRole" /\ th[t].pc = "ensure"
    /\ th[t].loc = [sheetName |-> "Monarch", rowNumber |-> 3]
    /\ Cardinality(Occurrences(sheets, th[t].arg.discordId)) >= 2
    /\ \E i \in 1..Len(sheets["Monalista"]) : sheets["Monalista"][i].id = th[t].arg.discordId

HeaderOK == \A s \in SheetSet : header[s] = HEADER_ROW

\* The step of handler t that is its call of ensureSheetSetup.
EnsureStep(t) ==
  /\ \/ th[t].pc \in {"ensure", "gensure", "densure"}
     \/ th[t].pc = "bensure" /\ th[t].updates # <<>>
  /\ th'[t] # th[t]

\* C18 (I3): once ensureSheetSetup has run, the three partitions exist and row 1
\* of each is the 4-column header, and no step of upsert, updateRole, reconcile
\* or deleteMany changes that; a header that is missing or differs is rewritten
\* by the next ensureSheetSetup, which writes nothing on a correct layout.
C18_HeaderKept ==
  [][/\ HeaderOK => HeaderOK'
     /\ \A t \in Threads :
          EnsureStep(t) =>
            /\ HeaderOK'
            /\ HeaderOK => th'[t].log = th[t].log
            /\ \A s \in SheetSet :
                 header[s] # HEADER_ROW =>
                   \E n \in 1..Len(th'[t].log) :
                     th'[t].log[n] = [op |-> "header", sheetName |-> s, rowNumber |-> 1]]_vars

C18_Witness ==
  \E t \in Threads :
    /\ th[t].kind = "bdel" /\ th[t].pc = "done"
    /\ \E j \in 1..Len(th[t].items) : th[t].items[j].rowNumber = 1
    /\ \E n \in 1..Len(th[t].log) : th[t].log[n].op = "header"
    /\ th[t].hpre["Monadians"] = Absent
    /\ HeaderOK

\* The transitions of `updates` among the first n that are moves: the new role
\* resolves to a partition other than the one the transition names.
MovesAmong(updates, n) ==
  {j \in 1..n : Resolves(updates[j].newRole) /\ PartitionOf(updates[j].newRole) # updates[j].sheetName}

\* C15: a reconcile takes the transitions one by one in input order, each
\* once; movedCount counts those whose new role resolves to another partition,
\* updatedCount those whose new role resolves to none or to the same
\* partition, so the two add up to the number of transitions; an empty input
\* returns (0, 0) and issues no remote call.
C15_ReconcileCounts ==
  \A t \in Threads :
    (th[t].kind = "batch" /\ ~conc) =>
      LET u == th[t].updates
          n == IF th[t].pc = "bensure" \/ u = <<>> THEN 0 ELSE th[t].i - 1
      IN
      /\ n \in 0..Len(u)
      /\ th[t].moved = Cardinality(MovesAmong(u, n))
      /\ th[t].updated = n - Cardinality(MovesAmong(u, n))
      /\ th[t].pc \in {"ensure", "scan", "del", "write"} =>
           /\ n + 1 \in MovesAmong(u, n + 1)
           /\ th[t].arg.discordId = u[n + 1].discordId
      /\ th[t].pc = "done" =>
           /\ n = Len(u)
           /\ th[t].updated + th[t].moved = Len(u)
           /\ th[t].result = "counts"
      /\ u = <<>> =>
           /\ th[t].log = <<>>
           /\ header = th[t].hpre
           /\ sheets = th[t].pre

C15_Witness ==
  \E t \in Threads :
    /\ th[t].kind = "batch" /\ ~conc /\ th[t].pc = "done"
    /\ Len(th[t].updates) = 2
    /\ th[t].moved = 1 /\ th[t].updated = 1

\* An empty reconcile on a spreadsheet that is not set up leaves it so.
C15_WitnessEmpty ==
  \E t \in Threads :
    /\ th[t].kind = "batch" /\ th[t].pc = "done" /\ th[t].updates = <<>>
    /\ ~HeaderOK

\* The step of handler t that is the role write of a same-partition transition.
RoleWriteStep(t) ==
  /\ th[t].kind = "batch" /\ th[t].pc = "bstep" /\ ~conc
  /\ Resolves(th[t].updates[th[t].i].newRole)
  /\ PartitionOf(th[t].updates[th[t].i].newRole) = th[t].updates[th[t].i].sheetName
  /\ th'[t] # th[t]

\* C16: for a reconcile transition whose new role resolves to the partition the
\* row is in, the step writes the role column of the row at (partition,
\* rowIndex) and nothing else: the other three columns of that row, the number
\* of rows of the partition and every other row of every partition stay.
C16_RoleWriteOnlyRoleColumn ==
  [][\A t \in Threads :
       RoleWriteStep(t) =>
         LET u == th[t].updates[th[t].i] IN
         /\ \A s \in SheetSet : Len(sheets'[s]) = Len(sheets[s])
         /\ \A s \in SheetSet : \A i \in 1..Len(sheets[s]) :
              IF s = u.sheetName /\ i = u.rowNumber - 1
              THEN sheets'[s][i] = [sheets[s][i] EXCEPT !.role = u.newRole]
              ELSE sheets'[s][i] = sheets[s][i]]_vars

\* C19: when an upsert that moves a user has deleted the old row and the
\* append that follows fails for good, the failure reaches the caller and the
\* table holds no row for that userId: the old row is gone and is not put back.
C19_MoveFailureLosesRecord ==
  \A t \in Threads :
    (th[t].kind = "upsert" /\ ~conc /\ th[t].failedAt = "write"
       /\ Len(th[t].log) = 1 /\ th[t].log[1].op = "delete") =>
      LET id == th[t].arg.discordId IN
      /\ th[t].pc = "done" /\ th[t].result = "error"
      /\ CountRows(th[t].pre, id) = 1
      /\ CountRows(sheets, id) = 0
      /\ \A s \in SheetSet :
           sheets[s] = Trim(KeepRows(th[t].pre[s],
                                     {i \in 1..Len(th[t].pre[s]) : th[t].pre[s][i].id = id}, 1))

C19_Witness ==
  \E t \in Threads :
    /\ th[t].kind = "upsert" /\ ~conc /\ th[t].failedAt = "write"
    /\ th[t].result = "error"
    /\ Len(th[t].log) = 1 /\ th[t].log[1].op = "delete"
    /\ CountRows(th[t].pre, th[t].arg.discordId) = 1
    /\ CountRows(sheets, th[t].arg.discordId) = 0
    /\ TotalRows(sheets, Len(SHEET_NAMES)) >= 1

\* The rows of a partition that belong to another userId than id, in order.
OthersRows(rows, id) == SelectSeq(rows, LAMBDA r : r # BlankRow /\ r.id # id)

\* C20: in every state of an upsert for user u that runs alone, the rows of
\* every other userId are, partition by partition, the rows from before the
\* call with the same content in the same relative order.
C20_UpsertLeavesOthers ==
  \A t \in Threads :
    (th[t].kind = "upsert" /\ ~conc /\ th[t].pc # "idle") =>
      \A s \in SheetSet :
        OthersRows(sheets[s], th[t].arg.discordId) = OthersRows(th[t].pre[s], th[t].arg.discordId)

C20_Witness ==
  \E t \in Threads :
    /\ th[t].kind = "upsert" /\ ~conc /\ th[t].pc = "done" /\ th[t].result = "inserted"
    /\ Len(th[t].log) = 2
    /\ \E s \in SheetSet :
         /\ Len(th[t].pre[s]) = 2
         /\ th[t].pre[s][1].id = th[t].arg.discordId
         /\ th[t].pre[s][2].id \in Users \ {th[t].arg.discordId}
         /\ sheets[s] = <<th[t].pre[s][2]>>

\* The workers of the refresh job that wait for a role lookup.
InFlight == {n \in DOMAIN rf.w : rf.w[n].st \in {"fetch", "fallback"}}

\* C17: in a refresh job at most 5 role lookups are in flight; every row of
\* the snapshot leaves the queue once, to one worker; while a worker has not
\* finished no write or delete has been issued; the writes are those of one
\* reconcile call, which issues them one after the other.
C17_RefreshPoolThenSequentialWrites ==
  rf.phase \notin {"off", "snap"} =>
    /\ Cardinality(InFlight) <= 5
    /\ \A i \in 1..Len(rf.taken) : rf.taken[i] <= 1
    /\ \A n, m \in InFlight : n # m => rf.w[n].item # rf.w[m].item
    /\ \A i \in 1..Len(rf.taken) :
         rf.taken[i] = 0 <=> \E q \in 1..Len(rf.queue) : rf.queue[q] = i
    /\ rf.phase \in {"reconcile", "done"} =>
         \A i \in 1..Len(rf.items) : rf.taken[i] = 1
    /\ (\E n \in DOMAIN rf.w : rf.w[n].st # "finished") =>
         /\ sheets = RefreshTable
         /\ \A t \in Threads : th[t] = IdleT
    /\ th[2] = IdleT
    /\ th[1].kind \in {"idle", "batch"}
    /\ sheets # RefreshTable => (th[1].kind = "batch" /\ th[1].log # <<>>)

C17_Witness ==
  /\ rf.phase = "lookup"
  /\ Cardinality(InFlight) = 5
  /\ Len(rf.computed) = 1
  /\ \E n \in InFlight : rf.w[n].item = NumRefreshRows

\* The reconcile of a refresh job after two mutations.
C17_WitnessWrites ==
  /\ rf.phase = "reconcile"
  /\ Len(th[1].log) >= 2

\* The reconcile of a refresh job moving a row it first deleted a wrong row for.
C17_WitnessStaleMove == rf.phase = "reconcile" /\ th[1].pc = "del"

\* The label the refresh computes for a user: the highest priority role the
\* member holds, '' for a member with none and for a user who is no member.
ComputedLabel(id) ==
  IF rf.guild[id] = Gone THEN ""
  ELSE IF "Monadian" \in rf.guild[id] THEN "Monadian"
  ELSE IF "Monarch" \in rf.guild[id] THEN "Monarch"
  ELSE IF "Monalista" \in rf.guild[id] THEN "Monalista"
  ELSE ""

\* The rows of the snapshot that name a user whose computed label differs from
\* the stored role.
ChangedItems ==
  {j \in 1..Len(rf.items) :
     rf.items[j].discordId # "" /\ ComputedLabel(rf.items[j].discordId) # rf.items[j].role}

\* C23: the refresh hands batchUpdateRoles one transition for each snapshot row
\* whose computed label differs from the stored role and none for the other
\* rows, and when the command has completed every row of a user whose role did
\* not change is where it was, with the content it had.
C23_RefreshWritesOnlyDifferences ==
  /\ rf.phase \in {"reconcile", "done"} =>
       /\ Len(th[1].updates) = Cardinality(ChangedItems)
       /\ \A j \in ChangedItems :
            \E n \in 1..Len(th[1].updates) :
              th[1].updates[n] = UpdateOf(rf.items[j], ComputedLabel(rf.items[j].discordId))
  /\ rf.phase = "done" =>
       \A j \in 1..Len(rf.items) :
         (rf.items[j].discordId # "" /\ j \notin ChangedItems) =>
           LET it == rf.items[j] IN
           /\ CountRows(sheets, it.discordId) = 1
           /\ \A p \in Places(sheets, it.discordId) :
                /\ p[1] = it.sheetName
                /\ sheets[p[1]][p[2]] = Row(it.discordUsername, it.discordId, it.wallet, it.role)

\* The user holds at least one priority role in the guild.
HoldsPriorityRole(id) ==
  rf.guild[id] # Gone /\ rf.guild[id] \cap {"Monadian", "Monarch", "Monalista"} # {}

\* C22: when a prune has completed, whatever the member lookups returned,
\* every user who holds a priority role has the row the snapshot showed, and
\* no row is left of a user who holds none.
C22_PruneRemovesOnlyRoleless ==
  (rf.phase = "done" /\ rf.pre # EmptyTab) =>
    \A j \in 1..Len(rf.items) :
      LET it == rf.items[j] IN
      it.discordId # "" =>
        IF HoldsPriorityRole(it.discordId)
        THEN /\ CountRows(sheets, it.discordId) = 1
             /\ \A p \in Places(sheets, it.discordId) :
                  /\ p[1] = it.sheetName
                  /\ sheets[p[1]][p[2]] = Row(it.discordUsername, it.discordId, it.wallet, it.role)
        ELSE CountRows(sheets, it.discordId) = 0

\* The user has the Monad Airdrop role in the guild.
HoldsAirdropRole(id) == rf.guild[id] # Gone /\ "Monad Airdrop" \in rf.guild[id]

\* C21: when a fill has completed, every row that had a blank role and whose
\* user holds the Monad Airdrop role is in the same sheet with the same
\* username, id and wallet and the role 'Monad Airdrop', and every other row
\* is as it was.
C21_FillSetsBlankRoles ==
  (rf.phase = "done" /\ rf.pre # EmptyTab) =>
    \A s \in SheetSet : \A i \in 1..Len(rf.pre[s]) :
      LET old == rf.pre[s][i] IN
      old.id # "" =>
        /\ CountRows(sheets, old.id) = 1
        /\ \A p \in Places(sheets, old.id) :
             /\ p[1] = s
             /\ sheets[p[1]][p[2]] =
                  IF old.role = "" /\ HoldsAirdropRole(old.id)
                  THEN Row(old.name, old.id, old.wallet, "Monad Airdrop")
                  ELSE old

====
